---- MODULE Spec2Model ----
(***************************************************************************)
(* Client runtime of the assistant front end: the credential store, the    *)
(* single-flight refresh coordinator and the authenticated request gateway *)
(* (utils/auth.ts, utils/authFetch.ts), and the streaming run client       *)
(* (hooks/useStreamState.ts).                                              *)
(*                                                                         *)
(* JavaScript runs one task at a time.  A network answer is a task; the    *)
(* continuations of an await on a settled promise are microtasks, which    *)
(* all run, in the order the awaits were made, before the next task.  The  *)
(* variable microq holds the continuations that are due: while it is not   *)
(* empty no network answer is taken.  A finished authFetch call hands its  *)
(* result to its caller in such a continuation, which frees the call's     *)
(* slot: NReq bounds the calls that are open at the same time, not the     *)
(* calls of a page life.                                                   *)
(***************************************************************************)
EXTENDS Integers, Sequences, FiniteSets, TLC

\* ---------------------------------------------------------------- bounds
NReq == 3          \* gateway requests (authFetch calls) open at a time
MaxRefresh == 2    \* /refresh network calls of one page life

\* ------------------------------------------------------------- constants
NoToken == 0       \* null: no credential
NoPromise == 0     \* refreshPromise = null
Pending == -1      \* a promise that has not settled
Rejected == -2     \* a promise that settled by throwing
None == -1         \* a field that has not been written

Reqs == 1..NReq
InitToken == 1      \* the credential of the login, if any
RefreshIds == 1..MaxRefresh
Statuses == {200, 401, 403, 500}
NetErr == 0        \* fetch() rejects: no response at all
RefreshAnswers == {200, 401, 500, NetErr}   \* what /refresh ends with
Urls == {<<"me">>, <<"refresh">>}

VARIABLES
  store,               \* localStorage[AUTH_TOKEN_KEY]
  redirectingForAuth,  \* the session-termination latch
  refreshPromise,      \* the coordinator's in-flight marker
  refreshCalls,        \* fetch("/refresh") calls issued so far
  netRefresh,          \* /refresh calls in flight
  outcome,             \* what each refresh promise settled to
  awaiting,            \* requests suspended in await getRefreshedToken()
  microq,              \* continuations due before the next task
  assigns,             \* window.location.assign("/") calls so far
  lastRefresh,         \* the /refresh call that ended last, and how
  req                  \* the authFetch calls

authVars == <<store, redirectingForAuth, refreshPromise, refreshCalls,
              netRefresh, outcome, awaiting, microq, assigns, lastRefresh,
              req>>

VARIABLES
  current,     \* the Stream State; status "none" stands for null
  controller,  \* the stream whose AbortController the hook holds
  conn,        \* each stream: "none", "connecting", "open", "closed",
               \* "failed", "aborted"
  turn,        \* startStream calls so far
  lastEv,      \* the callback that ran last, and on which stream
  inferredUsage  \* the inferredUsage of the data event that ran last

streamVars == <<current, controller, conn, turn, lastEv, inferredUsage>>

VARIABLES
  mleft,       \* mergeMessagesById: the argument left
  mright,      \* mergeMessagesById: the argument right
  mprev,       \* what the call before the last returned
  mout,        \* what the last call returned
  mcalls,      \* calls made so far
  msplit       \* right merged in two parts: where it was cut (-1: not
               \* yet) and what the second call returned

mergeVars == <<mleft, mright, mprev, mout, mcalls, msplit>>

VARIABLES
  tpc,          \* where startTurn is: "idle", "post" (POST /ingest in
                \* flight), "fetch" (a status request in flight), "sleep"
                \* (the poll's timer runs), "returned", "streaming"
  files,        \* the turn carries attachments
  aborted,      \* ingestController.signal.aborted
  jobId,        \* ingestJobId is set
  cancelCall,   \* cancelIngest in flight: "none", "own" (made in this
                \* turn), "old" (made in an earlier one)
  polls,        \* status requests of the turn so far
  reported,     \* the arguments of the onProgress calls of the turn
  ingestOutcome,  \* how startIngest ended
  ingestError,  \* the page's ingestError, "null" for null
  lastPoll,     \* the status response handled last, n being its request
  lastAnswer    \* the response to the job client's request handled last:
                \* op "submit", "poll" or "cancel", response.ok, and the
                \* body text of a response that is not ok; op "none" for
                \* a request that got no response

turnVars == <<tpc, files, aborted, jobId, cancelCall, polls, reported,
              ingestOutcome, ingestError, lastPoll, lastAnswer>>

VARIABLES
  gate,         \* AuthGate's ensureSession: "idle", "refresh" (its own
                \* refreshAuthToken in flight), "me" (authFetch("/me") in
                \* flight), "ready", "login" (sent to the login page)
  form,         \* the credential request in flight: "none", "login",
                \* "signup"
  loggingOut,   \* logoutSession's POST /logout in flight
  directRefresh, \* the /refresh calls in flight that refreshAuthToken
                \* made for AuthGate (gate) and for the session check of
                \* the login or signup page (page), 0 for none
  ready,        \* AuthGate's state ready: the protected content is shown
  stale         \* the session check whose effect was cleaned up (active
                \* is false): where it is ("none", "refresh", "me", and
                \* "over" once it returned), its /refresh call, its
                \* request, and whether /me answered it ok

sessionVars == <<gate, form, loggingOut, directRefresh, ready, stale>>

vars == <<authVars, streamVars, mergeVars, turnVars, sessionVars>>

\* what the gateway's steps leave alone, and what the stream's steps do
nonAuthVars == <<streamVars, mergeVars, turnVars, sessionVars>>
nonStreamVars == <<authVars, mergeVars, turnVars, sessionVars>>
nonMergeVars == <<authVars, streamVars, turnVars, sessionVars>>
nonSessionVars == <<streamVars, mergeVars, turnVars>>

\* ------------------------------------------------------- pure operators
\* response.status === 401 || response.status === 403
IsAuthFailure(st) == st \in {401, 403}

\* response.ok
IsOk(st) == st \in 200..299

\* a gateway that does not single out the refresh endpoint
NeverEndsWithRefresh(u) == FALSE

\* url.endsWith("/refresh"), a url being its path segments
EndsWithRefresh(u) == Len(u) > 0 /\ u[Len(u)] = "refresh"

\* a coordinator that does not look at the in-flight marker
StartsRefreshAlways(rp) == TRUE

\* if (!refreshPromise): does this call start a refresh of its own?
StartsRefresh(rp) == rp = NoPromise

\* refreshAuthToken without its try/catch: a network error rejects
RefreshResultNoCatch(st, tok) ==
  IF st = NetErr THEN Rejected
  ELSE IF ~IsOk(st) THEN NoToken
  ELSE tok

\* refreshAuthToken: the value its promise settles to
RefreshResult(st, tok) ==
  IF st = NetErr THEN NoToken
  ELSE IF ~IsOk(st) THEN NoToken
  ELSE tok

\* refreshAuthToken without the response.ok test before setAuthToken
RefreshStoreAnyAnswer(st, tok, old) ==
  IF st # NetErr THEN tok ELSE old

\* refreshAuthToken without setAuthToken: the store keeps what it had
RefreshStoreKeeps(st, tok, old) == old

\* refreshAuthToken: the store after it, setAuthToken on success only
RefreshStore(st, tok, old) ==
  IF st # NetErr /\ IsOk(st) THEN tok ELSE old

\* a coordinator whose promise has no finally
AfterNoFinally(rp) == rp

\* .finally(() => { refreshPromise = null; })
AfterFinally(rp) == NoPromise

\* withAuthHeaders: the token of the Authorization header, NoToken for none
WithAuthHeaders(s) == s

\* if (newToken): a credential to retry with
Truthy(t) == t # NoToken /\ t # Rejected

\* a guard that does not look at the latch
EntersAuthBranchNoLatch(st, latch) == IsAuthFailure(st)

\* the guard of line 111: is the 401/403 branch entered?
EntersAuthBranch(st, latch) == IsAuthFailure(st) /\ ~latch

SelectWaiters(q, k) == SelectSeq(q, LAMBDA i : req[i].joined = k)
RemoveWaiters(q, k) == SelectSeq(q, LAMBDA i : req[i].joined # k)

\* ----------------------------------------------------------------- Init
IdleReq == [pc |-> "idle", url |-> <<>>, last |-> None, joined |-> NoPromise,
            newToken |-> None, hdr |-> None, out |-> None,
            fetches |-> 0, refreshes |-> 0]

AuthInit ==
  /\ current = [status |-> "none",
                messages |-> [kind |-> "undefined", list |-> <<>>],
                run_id |-> 0, usage |-> 0]
  /\ controller = 0
  /\ conn = <<>>
  /\ turn = 0
  /\ lastEv = [kind |-> "none", s |-> 0]
  /\ inferredUsage = 0
  /\ mleft = [kind |-> "undefined", list |-> <<>>]
  /\ mright = [kind |-> "undefined", list |-> <<>>]
  /\ mprev = [kind |-> "undefined", list |-> <<>>]
  /\ mout = [kind |-> "undefined", list |-> <<>>]
  /\ mcalls = 0
  /\ msplit = [k |-> -1, out |-> [kind |-> "undefined", list |-> <<>>]]
  /\ tpc = "idle"
  /\ files = FALSE
  /\ aborted = FALSE
  /\ jobId = FALSE
  /\ cancelCall = "none"
  /\ polls = 0
  /\ reported = <<>>
  /\ ingestOutcome = [kind |-> "none", message |-> ""]
  /\ ingestError = "null"
  /\ lastPoll = [n |-> 0, status |-> "none", progress |-> -1, error |-> ""]
  /\ lastAnswer = [op |-> "none", ok |-> TRUE, text |-> ""]
  /\ gate = "idle"
  /\ form = "none"
  /\ loggingOut = FALSE
  /\ directRefresh = [gate |-> 0, page |-> 0]
  /\ ready = FALSE
  /\ stale = [pc |-> "none", refresh |-> 0, req |-> 0, ok |-> FALSE]
  /\ store \in {NoToken, InitToken}
  /\ redirectingForAuth = FALSE
  /\ refreshPromise = NoPromise
  /\ refreshCalls = 0
  /\ netRefresh = {}
  /\ outcome = [k \in RefreshIds |-> Pending]
  /\ awaiting = <<>>
  /\ microq = <<>>
  /\ assigns = 0
  /\ lastRefresh = [id |-> NoPromise, st |-> None]
  /\ req = [i \in Reqs |-> IdleReq]

\* -------------------------------------------------------------- actions
\* the free slot a new call takes: calls are interchangeable
FreeSlot(i) == req[i].pc = "idle" /\ \A j \in 1..(i - 1) : req[j].pc # "idle"

\* authFetch, lines 105-110: build the headers and issue the request
CallEffect(i, u) ==
  /\ FreeSlot(i)
  /\ microq = <<>>
  /\ req' = [req EXCEPT ![i].pc = "fetch1", ![i].url = u, ![i].fetches = 1]

\* a call of a caller that is not modelled further
Call(i, u) ==
  /\ CallEffect(i, u)
  /\ UNCHANGED <<store, redirectingForAuth, refreshPromise, refreshCalls,
                 netRefresh, outcome, awaiting, microq, assigns, lastRefresh,
                 nonAuthVars>>

\* the session-termination side effect, lines 129-131
Terminate ==
  /\ redirectingForAuth' = TRUE
  /\ store' = NoToken
  /\ assigns' = assigns + 1

\* authFetch, lines 106-110: the first fetch rejects, and so does the call
FetchFails(i) ==
  /\ req[i].pc = "fetch1"
  /\ microq = <<>>
  /\ req' = [req EXCEPT ![i].pc = "threw", ![i].last = NetErr]
  /\ microq' = <<i>>
  /\ UNCHANGED <<store, redirectingForAuth, refreshPromise, refreshCalls,
                 netRefresh, outcome, awaiting, assigns, lastRefresh,
                 nonAuthVars>>

\* authFetch, lines 111-133: the answer is no 401/403, or the latch is set
Respond(i, st) ==
  /\ req[i].pc = "fetch1"
  /\ microq = <<>>
  /\ ~EntersAuthBranch(st, redirectingForAuth)
  /\ req' = [req EXCEPT ![i].pc = "done", ![i].last = st, ![i].out = st]
  /\ microq' = <<i>>
  /\ UNCHANGED <<store, redirectingForAuth, refreshPromise, refreshCalls,
                 netRefresh, outcome, awaiting, assigns, lastRefresh,
                 nonAuthVars>>

\* authFetch, lines 111-119, with getRefreshedToken, lines 83-90: a 401/403
\* on another target than /refresh calls the coordinator and suspends
RespondUnauthorized(i, st) ==
  /\ req[i].pc = "fetch1"
  /\ microq = <<>>
  /\ EntersAuthBranch(st, redirectingForAuth)
  /\ ~EndsWithRefresh(req[i].url)
  /\ IF StartsRefresh(refreshPromise)
       THEN /\ refreshCalls < MaxRefresh
            /\ refreshCalls' = refreshCalls + 1
            /\ netRefresh' = netRefresh \cup {refreshCalls + 1}
            /\ refreshPromise' = refreshCalls + 1
       ELSE UNCHANGED <<refreshCalls, netRefresh, refreshPromise,
                 nonAuthVars>>
  /\ req' = [req EXCEPT ![i].pc = "await", ![i].last = st,
                        ![i].joined = refreshPromise',
                        ![i].refreshes = @ + 1]
  /\ awaiting' = Append(awaiting, i)
  /\ UNCHANGED <<store, redirectingForAuth, outcome, microq, assigns,
                 lastRefresh,
                 nonAuthVars>>

\* authFetch, lines 111-133: a 401/403 from /refresh itself goes to the guard
RespondRefreshTarget(i, st) ==
  /\ req[i].pc = "fetch1"
  /\ microq = <<>>
  /\ EntersAuthBranch(st, redirectingForAuth)
  /\ EndsWithRefresh(req[i].url)
  /\ Terminate
  /\ req' = [req EXCEPT ![i].pc = "done", ![i].last = st, ![i].out = st]
  /\ microq' = <<i>>
  /\ UNCHANGED <<refreshPromise, refreshCalls, netRefresh, outcome, awaiting,
                 lastRefresh,
                 nonAuthVars>>

\* data.access_token of the k-th /refresh call: the server issues a new
\* credential with every successful refresh
IssuedToken(k) == InitToken + k

\* refreshAuthToken, lines 150-165, and the finally of lines 85-87: the
\* /refresh call k ends with status st (NetErr: fetch rejected); the calls
\* that await it are due
RefreshSettles(k, st) ==
  /\ k \in netRefresh
  /\ microq = <<>>
  /\ netRefresh' = netRefresh \ {k}
  /\ outcome' = [outcome EXCEPT ![k] = RefreshResult(st, IssuedToken(k))]
  /\ store' = RefreshStore(st, IssuedToken(k), store)
  /\ refreshPromise' = AfterFinally(refreshPromise)
  /\ microq' = SelectWaiters(awaiting, k)
  /\ awaiting' = RemoveWaiters(awaiting, k)
  /\ lastRefresh' = [id |-> k, st |-> st]
  /\ UNCHANGED <<redirectingForAuth, refreshCalls, assigns, req,
                 nonAuthVars>>

\* a coordinator that answers with the stored credential
AwaitedFromStore(i) == store

\* await getRefreshedToken(), line 119: the value the suspended call i gets
Awaited(i) == outcome[req[i].joined]

\* authFetch, lines 119-127: the await returns a credential; retry
ResumeRetry(i) ==
  /\ microq # <<>> /\ i = Head(microq)
  /\ req[i].pc = "await"
  /\ Truthy(Awaited(i))
  /\ microq' = Tail(microq)
  /\ req' = [req EXCEPT ![i].pc = "fetch2",
                        ![i].newToken = Awaited(i),
                        ![i].hdr = WithAuthHeaders(store),
                        ![i].fetches = @ + 1]
  /\ UNCHANGED <<store, redirectingForAuth, refreshPromise, refreshCalls,
                 netRefresh, outcome, awaiting, assigns, lastRefresh,
                 nonAuthVars>>

\* authFetch, lines 119-133: the await returns null and the guard runs; an
\* await that throws instead ends the call there
ResumeTerminate(i) ==
  /\ microq # <<>> /\ i = Head(microq)
  /\ req[i].pc = "await"
  /\ ~Truthy(Awaited(i))
  /\ microq' = Append(Tail(microq), i)
  /\ IF Awaited(i) = Rejected
       THEN /\ req' = [req EXCEPT ![i].pc = "threw", ![i].newToken = Rejected]
            /\ UNCHANGED <<store, redirectingForAuth, assigns,
                 nonAuthVars>>
       ELSE /\ Terminate
            /\ req' = [req EXCEPT ![i].pc = "done",
                                  ![i].newToken = NoToken,
                                  ![i].out = req[i].last]
  /\ UNCHANGED <<refreshPromise, refreshCalls, netRefresh, outcome, awaiting,
                 lastRefresh,
                 nonAuthVars>>

\* a gateway that retries again when the retry is refused
RetryRespondsAgain(i, st) ==
  /\ req[i].pc = "fetch2"
  /\ microq = <<>>
  /\ IF IsAuthFailure(st) /\ req[i].fetches < 3
       THEN /\ req' = [req EXCEPT ![i].last = st, ![i].fetches = @ + 1]
            /\ microq' = microq
       ELSE /\ req' = [req EXCEPT ![i].pc = "done", ![i].last = st,
                                  ![i].out = st]
            /\ microq' = <<i>>
  /\ UNCHANGED <<store, redirectingForAuth, refreshPromise, refreshCalls,
                 netRefresh, outcome, awaiting, assigns, lastRefresh,
                 nonAuthVars>>

\* a gateway that ends the session when the retry is refused
RetryRespondsGuarded(i, st) ==
  /\ req[i].pc = "fetch2"
  /\ microq = <<>>
  /\ req' = [req EXCEPT ![i].pc = "done", ![i].last = st, ![i].out = st]
  /\ microq' = <<i>>
  /\ IF EntersAuthBranch(st, redirectingForAuth)
       THEN Terminate
       ELSE UNCHANGED <<store, redirectingForAuth, assigns>>
  /\ UNCHANGED <<refreshPromise, refreshCalls, netRefresh, outcome, awaiting,
                 lastRefresh, nonAuthVars>>

\* authFetch, lines 122-126: the retry's answer is returned as it is
RetryResponds(i, st) ==
  /\ req[i].pc = "fetch2"
  /\ microq = <<>>
  /\ req' = [req EXCEPT ![i].pc = "done", ![i].last = st, ![i].out = st]
  /\ microq' = <<i>>
  /\ UNCHANGED <<store, redirectingForAuth, refreshPromise, refreshCalls,
                 netRefresh, outcome, awaiting, assigns, lastRefresh,
                 nonAuthVars>>

\* authFetch, lines 122-126: the retry rejects, and so does the call
RetryFails(i) ==
  /\ req[i].pc = "fetch2"
  /\ microq = <<>>
  /\ req' = [req EXCEPT ![i].pc = "threw", ![i].last = NetErr]
  /\ microq' = <<i>>
  /\ UNCHANGED <<store, redirectingForAuth, refreshPromise, refreshCalls,
                 netRefresh, outcome, awaiting, assigns, lastRefresh,
                 nonAuthVars>>

\* the caller's continuation: it has the response (or the failure) and the
\* call is over
ReturnEffect(i) ==
  /\ microq # <<>> /\ i = Head(microq)
  /\ req[i].pc \in {"done", "threw"}
  /\ microq' = Tail(microq)
  /\ req' = [req EXCEPT ![i] = IdleReq]

\* the continuation of a caller that is not modelled further
Return(i) ==
  /\ ReturnEffect(i)
  /\ UNCHANGED <<store, redirectingForAuth, refreshPromise, refreshCalls,
                 netRefresh, outcome, awaiting, assigns, lastRefresh,
                 nonAuthVars>>

AuthNext ==
  \/ \E i \in Reqs, u \in Urls : Call(i, u)
  \/ \E i \in Reqs : FetchFails(i)
  \/ \E i \in Reqs, st \in Statuses : Respond(i, st)
  \/ \E i \in Reqs, st \in Statuses : RespondUnauthorized(i, st)
  \/ \E i \in Reqs, st \in Statuses : RespondRefreshTarget(i, st)
  \/ \E k \in RefreshIds, st \in RefreshAnswers : RefreshSettles(k, st)
  \/ \E i \in Reqs : ResumeRetry(i)
  \/ \E i \in Reqs : ResumeTerminate(i)
  \/ \E i \in Reqs, st \in Statuses : RetryResponds(i, st)
  \/ \E i \in Reqs : RetryFails(i)
  \/ \E i \in Reqs : Return(i)

SpecAuth == AuthInit /\ [][AuthNext]_vars

\* the network ends every /refresh call, whose answer is taken once no
\* continuation is due, and due continuations run
FairSpecAuth ==
  /\ SpecAuth
  /\ SF_vars(\E k \in RefreshIds, st \in RefreshAnswers :
                   RefreshSettles(k, st))
  /\ WF_vars(\E i \in Reqs :
                   ResumeRetry(i) \/ ResumeTerminate(i) \/ Return(i))

\* ======================================================================
\* The streaming run client, hooks/useStreamState.ts.  current and
\* controller are the hook's two React states; their updates are functional
\* and are applied in the order they are made.  A stream is the
\* fetchEventSource call of one startStream: it is open until it closes,
\* fails or is aborted, and delivers no event after that.
\* ======================================================================
MaxTurns == 2      \* startStream calls of one page life

NoUsage == 0       \* usage: null
NoRun == 0         \* run_id: undefined
NoController == 0  \* controller: null

Streams == 1..MaxTurns
UsagePayloads == {7, 9}         \* total_tokens of a usage event's payload

\* a message is [id, content, total], total being its
\* usage_metadata.total_tokens, 0 for none

\* the two shapes of a transcript, and the missing one
Undefined == [kind |-> "undefined", list |-> <<>>]
Bare(l) == [kind |-> "array", list |-> l]
Wrapped(l) == [kind |-> "object", list |-> l]

\* current = null: every current?.field is undefined
NoState == [status |-> "none", messages |-> Undefined, run_id |-> NoRun,
            usage |-> NoUsage]

\* Array.isArray(x) ? x : x?.messages, then ?? []
Unwrap(m) == IF m.kind = "undefined" THEN <<>> ELSE m.list

\* a merge that never finds the identity
FindIndexNone(l, id) == 0

\* merged.findIndex((m) => m.id === msg.id), 0 for -1
FindIndex(l, id) ==
  IF \E n \in 1..Len(l) : l[n].id = id
    THEN CHOOSE n \in 1..Len(l) :
           l[n].id = id /\ \A k \in 1..(n - 1) : l[k].id # id
    ELSE 0

\* a merge that keeps the entry it has
MergeOneKeep(merged, msg) ==
  LET foundIdx == FindIndex(merged, msg.id)
  IN IF foundIdx = 0 THEN Append(merged, msg) ELSE merged

\* a merge that pushes every message
MergeOnePush(merged, msg) == Append(merged, msg)

\* a merge that moves the message it replaces to the end
MergeOneMove(merged, msg) ==
  LET foundIdx == FindIndex(merged, msg.id)
  IN IF foundIdx = 0 THEN Append(merged, msg)
     ELSE Append(SubSeq(merged, 1, foundIdx - 1)
                   \o SubSeq(merged, foundIdx + 1, Len(merged)), msg)

\* the loop body of mergeMessagesById: push, or replace at foundIdx
MergeOne(merged, msg) ==
  LET foundIdx == FindIndex(merged, msg.id)
  IN IF foundIdx = 0 THEN Append(merged, msg)
     ELSE [merged EXCEPT ![foundIdx] = msg]

\* a loop that takes the incoming messages from the last to the first
RECURSIVE MergeLoopBackward(_, _)
MergeLoopBackward(merged, right) ==
  IF right = <<>> THEN merged
  ELSE MergeLoopBackward(MergeOne(merged, right[Len(right)]),
                         SubSeq(right, 1, Len(right) - 1))

RECURSIVE MergeLoop(_, _)
MergeLoop(merged, right) ==
  IF right = <<>> THEN merged
  ELSE MergeLoop(MergeOne(merged, Head(right)), Tail(right))

\* mergeMessagesById(left, right): always a bare array
mergeMessagesById(left, right) == Bare(MergeLoop(Unwrap(left), Unwrap(right)))

\* extractUsage: the last message with a truthy total_tokens, else null
RECURSIVE ScanUsage(_, _)
ScanUsage(l, i) ==
  IF i = 0 THEN NoUsage
  ELSE IF l[i].total # 0 THEN l[i].total
  ELSE ScanUsage(l, i - 1)

extractUsage(msgs) ==
  IF msgs.kind = "undefined" THEN NoUsage
  ELSE ScanUsage(msgs.list, Len(msgs.list))

\* a data handler that prefers the usage it inferred
CoalesceInferred(a, b) == IF b # NoUsage THEN b ELSE a

\* a ?? b
Coalesce(a, b) == IF a # NoUsage THEN a ELSE b

\* current?.status ?? "inflight"
StatusOr(cur) == IF cur.status = "none" THEN "inflight" ELSE cur.status

\* onclose that forgets the error
CloseStatusDone(cur) == "done"

\* onclose: current?.status === "error" ? current.status : "done"
CloseStatus(cur) == IF cur.status = "error" THEN cur.status ELSE "done"

StreamInit ==
  /\ store = NoToken
  /\ redirectingForAuth = FALSE
  /\ refreshPromise = NoPromise
  /\ refreshCalls = 0
  /\ netRefresh = {}
  /\ outcome = [k \in RefreshIds |-> Pending]
  /\ awaiting = <<>>
  /\ microq = <<>>
  /\ assigns = 0
  /\ lastRefresh = [id |-> NoPromise, st |-> None]
  /\ req = [i \in Reqs |-> IdleReq]
  /\ current = NoState
  /\ controller = NoController
  /\ conn = [s \in Streams |-> "none"]
  /\ turn = 0
  /\ lastEv = [kind |-> "none", s |-> 0]
  /\ inferredUsage = NoUsage
  /\ mleft = [kind |-> "undefined", list |-> <<>>]
  /\ mright = [kind |-> "undefined", list |-> <<>>]
  /\ mprev = [kind |-> "undefined", list |-> <<>>]
  /\ mout = [kind |-> "undefined", list |-> <<>>]
  /\ mcalls = 0
  /\ msplit = [k |-> -1, out |-> [kind |-> "undefined", list |-> <<>>]]
  /\ tpc = "idle"
  /\ files = FALSE
  /\ aborted = FALSE
  /\ jobId = FALSE
  /\ cancelCall = "none"
  /\ polls = 0
  /\ reported = <<>>
  /\ ingestOutcome = [kind |-> "none", message |-> ""]
  /\ ingestError = "null"
  /\ lastPoll = [n |-> 0, status |-> "none", progress |-> -1, error |-> ""]
  /\ lastAnswer = [op |-> "none", ok |-> TRUE, text |-> ""]
  /\ gate = "idle"
  /\ form = "none"
  /\ loggingOut = FALSE
  /\ directRefresh = [gate |-> 0, page |-> 0]
  /\ ready = FALSE
  /\ stale = [pc |-> "none", refresh |-> 0, req |-> 0, ok |-> FALSE]

\* startStream, lines 50-71: a new controller, a fresh Stream State, and
\* POST /runs/stream is sent by fetchEventSource with the stored credential
\* in its header; the earlier controller is dropped as it is
StartStreamEffect(input) ==
  /\ turn < MaxTurns
  /\ turn' = turn + 1
  /\ controller' = turn + 1
  /\ current' = [status |-> "inflight",
                 messages |-> IF input.kind = "undefined" THEN Bare(<<>>)
                              ELSE input,
                 run_id |-> NoRun,
                 usage |-> NoUsage]
  /\ conn' = [conn EXCEPT ![turn + 1] = "connecting"]
  /\ lastEv' = [kind |-> "start", s |-> turn + 1]
  /\ UNCHANGED inferredUsage

startStream(input) == StartStreamEffect(input) /\ UNCHANGED nonStreamVars

\* the answer to POST /runs/stream is an event stream: events follow
OnOpen(s) ==
  /\ conn[s] = "connecting"
  /\ conn' = [conn EXCEPT ![s] = "open"]
  /\ lastEv' = [kind |-> "open", s |-> s]
  /\ UNCHANGED <<current, controller, turn, inferredUsage, nonStreamVars>>

\* the answer to POST /runs/stream is a refusal with status st, which is no
\* event stream: fetchEventSource hands the failure to onerror, lines
\* 116-125, whose throw ends the call; nothing else looks at the status
OnRefused(s, st) ==
  /\ conn[s] = "connecting"
  /\ current' = [current EXCEPT !.status = "error"]
  /\ controller' = NoController
  /\ conn' = [conn EXCEPT ![s] = "failed"]
  /\ lastEv' = [kind |-> IF IsAuthFailure(st) THEN "unauthorized"
                         ELSE "refused",
                s |-> s]
  /\ UNCHANGED <<turn, inferredUsage, nonStreamVars>>

\* onmessage, event "data", lines 73-81
OnData(s, messages) ==
  /\ conn[s] = "open"
  /\ current' = [status |-> "inflight",
                 messages |-> mergeMessagesById(current.messages, messages),
                 run_id |-> current.run_id,
                 usage |-> Coalesce(current.usage, extractUsage(messages))]
  /\ lastEv' = [kind |-> "data", s |-> s]
  /\ inferredUsage' = extractUsage(messages)
  /\ UNCHANGED <<controller, conn, turn, nonStreamVars>>

\* a metadata handler that starts the usage afresh
OnMetadataFresh(s, run_id) ==
  /\ conn[s] = "open"
  /\ current' = [status |-> "inflight",
                 messages |-> current.messages,
                 run_id |-> run_id,
                 usage |-> NoUsage]
  /\ lastEv' = [kind |-> "metadata", s |-> s]
  /\ UNCHANGED <<controller, conn, turn, inferredUsage, nonStreamVars>>

\* onmessage, event "metadata", lines 82-89
OnMetadata(s, run_id) ==
  /\ conn[s] = "open"
  /\ current' = [status |-> "inflight",
                 messages |-> current.messages,
                 run_id |-> run_id,
                 usage |-> current.usage]
  /\ lastEv' = [kind |-> "metadata", s |-> s]
  /\ UNCHANGED <<controller, conn, turn, inferredUsage, nonStreamVars>>

\* a usage handler that keeps the usage it has
OnUsageFirstWins(s, usage) ==
  /\ conn[s] = "open"
  /\ current' = [status |-> StatusOr(current),
                 messages |-> current.messages,
                 run_id |-> current.run_id,
                 usage |-> Coalesce(current.usage, usage)]
  /\ lastEv' = [kind |-> "usage", s |-> s, payload |-> usage]
  /\ UNCHANGED <<controller, conn, turn, inferredUsage, nonStreamVars>>

\* onmessage, event "usage", lines 90-97
OnUsage(s, usage) ==
  /\ conn[s] = "open"
  /\ current' = [status |-> StatusOr(current),
                 messages |-> current.messages,
                 run_id |-> current.run_id,
                 usage |-> usage]
  /\ lastEv' = [kind |-> "usage", s |-> s, payload |-> usage]
  /\ UNCHANGED <<controller, conn, turn, inferredUsage, nonStreamVars>>

\* onmessage, event "error", lines 98-105
OnErrorEvent(s) ==
  /\ conn[s] = "open"
  /\ current' = [current EXCEPT !.status = "error"]
  /\ lastEv' = [kind |-> "error", s |-> s]
  /\ UNCHANGED <<controller, conn, turn, inferredUsage, nonStreamVars>>

\* onclose, lines 107-115
OnClose(s) ==
  /\ conn[s] = "open"
  /\ current' = [current EXCEPT !.status = CloseStatus(current)]
  /\ controller' = NoController
  /\ conn' = [conn EXCEPT ![s] = "closed"]
  /\ lastEv' = [kind |-> "close", s |-> s]
  /\ UNCHANGED <<turn, inferredUsage, nonStreamVars>>

\* an onerror that does not rethrow: the call ends as after a close
OnErrorSwallowed(s) ==
  /\ conn[s] \in {"connecting", "open"}
  /\ current' = [current EXCEPT !.status = "error"]
  /\ controller' = NoController
  /\ conn' = [conn EXCEPT ![s] = "closed"]
  /\ lastEv' = [kind |-> "transport", s |-> s]
  /\ UNCHANGED <<turn, inferredUsage, nonStreamVars>>

\* onerror, lines 116-125: the transport failed; the error is rethrown and
\* ends the fetchEventSource call, so that the promise of startStream is
\* rejected: conn is "failed", where a close leaves "closed"
OnError(s) ==
  /\ conn[s] \in {"connecting", "open"}
  /\ current' = [current EXCEPT !.status = "error"]
  /\ controller' = NoController
  /\ conn' = [conn EXCEPT ![s] = "failed"]
  /\ lastEv' = [kind |-> "transport", s |-> s]
  /\ UNCHANGED <<turn, inferredUsage, nonStreamVars>>

\* a stop that keeps the status error, as onclose does
stopStreamKeepsError(clear) ==
  /\ conn' = IF /\ controller # NoController
                 /\ conn[controller] \in {"connecting", "open"}
               THEN [conn EXCEPT ![controller] = "aborted"]
               ELSE conn
  /\ controller' = NoController
  /\ current' = [status |-> CloseStatus(current),
                 messages |-> IF clear THEN Undefined ELSE current.messages,
                 run_id |-> current.run_id,
                 usage |-> current.usage]
  /\ lastEv' = [kind |-> "stop", s |-> controller]
  /\ UNCHANGED <<turn, inferredUsage, nonStreamVars>>

\* stopStream, lines 131-151
stopStream(clear) ==
  /\ conn' = IF /\ controller # NoController
                 /\ conn[controller] \in {"connecting", "open"}
               THEN [conn EXCEPT ![controller] = "aborted"]
               ELSE conn
  /\ controller' = NoController
  /\ current' = [status |-> "done",
                 messages |-> IF clear THEN Undefined ELSE current.messages,
                 run_id |-> current.run_id,
                 usage |-> current.usage]
  /\ lastEv' = [kind |-> "stop", s |-> controller]
  /\ UNCHANGED <<turn, inferredUsage, nonStreamVars>>

\* what the page hands to startStream: nothing, one human message, or that
\* message in the {messages} shape
HumanMessage == [id |-> 1, content |-> "a", total |-> 0]
Inputs == {Undefined, Bare(<<HumanMessage>>), Wrapped(<<HumanMessage>>)}

\* the fragments of the runs with several turns: nothing, the human
\* message as the server stores it, an answer that carries usage, and a
\* fragment that names the answer twice, first with another usage and
\* then without any
TurnFragments ==
  {<<>>,
   <<[id |-> 1, content |-> "x", total |-> 0]>>,
   <<[id |-> 2, content |-> "a", total |-> 5]>>,
   <<[id |-> 2, content |-> "a", total |-> 8],
     [id |-> 2, content |-> "x", total |-> 0]>>}

StreamNext ==
  \/ \E input \in Inputs : startStream(input)
  \/ \E s \in Streams : OnOpen(s)
  \/ \E s \in Streams, st \in Statuses \ {200} : OnRefused(s, st)
  \/ \E s \in Streams, f \in TurnFragments : OnData(s, Bare(f))
  \/ \E s \in Streams, f \in TurnFragments : OnData(s, Wrapped(f))
  \/ \E s \in Streams : OnMetadata(s, s)
  \/ \E s \in Streams, u \in UsagePayloads : OnUsage(s, u)
  \/ \E s \in Streams : OnErrorEvent(s)
  \/ \E s \in Streams : OnClose(s)
  \/ \E s \in Streams : OnError(s)
  \/ \E clear \in BOOLEAN : stopStream(clear)

SpecStream == StreamInit /\ [][StreamNext]_vars

\* ======================================================================
\* mergeMessagesById on its own: a transcript and a fragment are drawn, the
\* fragment is merged into the transcript, and then once more into the
\* result, as a repeated data event does.
\* ======================================================================
MaxLen == 2        \* messages of a transcript, and of a fragment

MsgIds == {1, 2, 3}
MsgContents == {"a", "x"}
Msgs == [id : MsgIds, content : MsgContents, total : {0}]

SeqsUpTo(S, n) == UNION {[1..k -> S] : k \in 0..n}

\* the identities of a sequence, and whether they are all different
IdsOf(l) == {l[n].id : n \in 1..Len(l)}
UniqueIds(l) == \A m, n \in 1..Len(l) : l[m].id = l[n].id => m = n

Shapes(L) == {Undefined} \cup {Bare(l) : l \in L} \cup {Wrapped(l) : l \in L}

\* a transcript has unique identities; a fragment is any sequence
Transcripts == Shapes({l \in SeqsUpTo(Msgs, MaxLen) : UniqueIds(l)})
MergeFragments == Shapes(SeqsUpTo(Msgs, MaxLen))

MergeInit ==
  /\ store = NoToken
  /\ redirectingForAuth = FALSE
  /\ refreshPromise = NoPromise
  /\ refreshCalls = 0
  /\ netRefresh = {}
  /\ outcome = [k \in RefreshIds |-> Pending]
  /\ awaiting = <<>>
  /\ microq = <<>>
  /\ assigns = 0
  /\ lastRefresh = [id |-> NoPromise, st |-> None]
  /\ req = [i \in Reqs |-> IdleReq]
  /\ current = NoState
  /\ controller = NoController
  /\ conn = [s \in Streams |-> "none"]
  /\ turn = 0
  /\ lastEv = [kind |-> "none", s |-> 0]
  /\ inferredUsage = NoUsage
  /\ mleft \in Transcripts
  /\ mright \in MergeFragments
  /\ mprev = Undefined
  /\ mout = Undefined
  /\ mcalls = 0
  /\ msplit = [k |-> -1, out |-> [kind |-> "undefined", list |-> <<>>]]
  /\ tpc = "idle"
  /\ files = FALSE
  /\ aborted = FALSE
  /\ jobId = FALSE
  /\ cancelCall = "none"
  /\ polls = 0
  /\ reported = <<>>
  /\ ingestOutcome = [kind |-> "none", message |-> ""]
  /\ ingestError = "null"
  /\ lastPoll = [n |-> 0, status |-> "none", progress |-> -1, error |-> ""]
  /\ lastAnswer = [op |-> "none", ok |-> TRUE, text |-> ""]
  /\ gate = "idle"
  /\ form = "none"
  /\ loggingOut = FALSE
  /\ directRefresh = [gate |-> 0, page |-> 0]
  /\ ready = FALSE
  /\ stale = [pc |-> "none", refresh |-> 0, req |-> 0, ok |-> FALSE]

\* the data handler's call, line 78: the fragment is merged into the
\* transcript, which is the argument left at first and the result after
MergeFragment ==
  /\ mcalls < 2
  /\ mout' = mergeMessagesById(IF mcalls = 0 THEN mleft ELSE mout, mright)
  /\ mprev' = mout
  /\ mcalls' = mcalls + 1
  /\ UNCHANGED <<mleft, mright, msplit, nonMergeVars>>

\* the part of a fragment that one data event carries, in its shape
PartOf(m, l) == IF m.kind = "undefined" THEN m ELSE [m EXCEPT !.list = l]

\* the same messages arrive in two data events, cut after the k-th: the
\* handler's call, line 78, is made for the first part and then, on its
\* result, for the second
MergeInParts(k) ==
  /\ mcalls = 2
  /\ msplit.k = -1
  /\ k <= Len(Unwrap(mright))
  /\ LET list == Unwrap(mright)
         B1 == PartOf(mright, SubSeq(list, 1, k))
         B2 == PartOf(mright, SubSeq(list, k + 1, Len(list)))
     IN msplit' = [k |-> k,
                   out |-> mergeMessagesById(mergeMessagesById(mleft, B1),
                                             B2)]
  /\ UNCHANGED <<mleft, mright, mprev, mout, mcalls, nonMergeVars>>

MergeNext ==
  \/ MergeFragment
  \/ \E k \in 0..MaxLen : MergeInParts(k)

SpecMerge == MergeInit /\ [][MergeNext]_vars

\* ======================================================================
\* A turn of the page, App.tsx startTurn, with the ingestion job client,
\* utils/ingest.ts.  The answers of authFetch are what the gateway returns
\* to its caller: a response, or the failure of fetch.  The signal of the
\* turn's ingestController is passed to every request of the job client,
\* so a request in flight when the signal is set rejects with AbortError.
\* ======================================================================
MaxPolls == 3      \* status requests of one turn

NoProgress == -1   \* a status response whose progress is no number
Progresses == {2, 6, 10}       \* progress in tenths: 0.2, 0.6, 1.0
PollStatuses == {"running", "done", "error", "canceled", "queued"}
ServerErrors == {"", "boom"}   \* status.error: none, or the server's text
BodyTexts == {"", "down"}      \* the body of a response that is not ok

StatusResponses ==
  {r \in [status : PollStatuses, progress : Progresses \cup {NoProgress},
          error : ServerErrors] : r.status # "error" => r.error = ""}

NoOutcome == [kind |-> "none", message |-> ""]
Resolved == [kind |-> "resolved", message |-> ""]
Failure(m) == [kind |-> "error", message |-> m]             \* new Error(m)
\* new DOMException("Ingest canceled", "AbortError"), and the rejection of
\* a fetch whose signal is set
AbortFailure == [kind |-> "abort", message |-> "Ingest canceled"]
NetFailure == Failure("Failed to fetch")   \* fetch rejects: no response

NoAnswer == [op |-> "none", ok |-> TRUE, text |-> ""]
Answer(op, ok, text) == [op |-> op, ok |-> ok, text |-> text]

NoPoll == [n |-> 0, status |-> "none", progress |-> NoProgress, error |-> ""]

\* a client that shows its fixed message whatever the body says
OrElseFallback(m, fallback) == fallback

\* message || fallback
OrElse(m, fallback) == IF m # "" THEN m ELSE fallback

\* a poll that tests the signal nowhere
SignalIgnored(a) == FALSE

\* if (signal?.aborted), line 50
SignalAborted(a) == a

\* a poll that reports the progress of running jobs only
ReportsProgressRunning(r) == r.progress # NoProgress /\ r.status = "running"

\* typeof status.progress === "number", line 62
ReportsProgress(r) == r.progress # NoProgress

\* a poll that goes on after the answer done
PollVerdictDoneGoesOn(r) ==
  IF r.status = "canceled" THEN AbortFailure
  ELSE IF r.status = "error" THEN Failure(OrElse(r.error, "Ingest failed."))
  ELSE NoOutcome

\* a poll that takes canceled for an ordinary error
PollVerdictCancelAsError(r) ==
  IF r.status = "canceled" THEN Failure("Ingest canceled")
  ELSE IF r.status = "done" THEN Resolved
  ELSE IF r.status = "error" THEN Failure(OrElse(r.error, "Ingest failed."))
  ELSE NoOutcome

\* waitForIngest, lines 65-73: what a status response ends the poll with,
\* NoOutcome when the poll goes on
PollVerdict(r) ==
  IF r.status = "canceled" THEN AbortFailure
  ELSE IF r.status = "done" THEN Resolved
  ELSE IF r.status = "error" THEN Failure(OrElse(r.error, "Ingest failed."))
  ELSE NoOutcome

\* a catch block without its return
CatchFallsThrough(o) == FALSE

\* startTurn, lines 69-77: the catch block returns
CatchReturns(o) == TRUE

\* startTurn, lines 70-76: what the catch block shows
IngestErrorOf(o) == IF o.kind = "abort" THEN "Upload canceled." ELSE o.message

\* startTurn, lines 86-107, for a turn with a message
MessageInputs == Inputs \ {Undefined}

TurnInit ==
  /\ store = NoToken
  /\ redirectingForAuth = FALSE
  /\ refreshPromise = NoPromise
  /\ refreshCalls = 0
  /\ netRefresh = {}
  /\ outcome = [k \in RefreshIds |-> Pending]
  /\ awaiting = <<>>
  /\ microq = <<>>
  /\ assigns = 0
  /\ lastRefresh = [id |-> NoPromise, st |-> None]
  /\ req = [i \in Reqs |-> IdleReq]
  /\ current = NoState
  /\ controller = NoController
  /\ conn = [s \in Streams |-> "none"]
  /\ turn = 0
  /\ lastEv = [kind |-> "none", s |-> 0]
  /\ inferredUsage = NoUsage
  /\ mleft = Undefined
  /\ mright = Undefined
  /\ mprev = Undefined
  /\ mout = Undefined
  /\ mcalls = 0
  /\ msplit = [k |-> -1, out |-> [kind |-> "undefined", list |-> <<>>]]
  /\ tpc = "idle"
  /\ files = FALSE
  /\ aborted = FALSE
  /\ jobId = FALSE
  /\ cancelCall = "none"
  /\ polls = 0
  /\ reported = <<>>
  /\ ingestOutcome = NoOutcome
  /\ ingestError = "null"
  /\ lastPoll = NoPoll
  /\ lastAnswer = [op |-> "none", ok |-> TRUE, text |-> ""]
  /\ gate = "idle"
  /\ form = "none"
  /\ loggingOut = FALSE
  /\ directRefresh = [gate |-> 0, page |-> 0]
  /\ ready = FALSE
  /\ stale = [pc |-> "none", refresh |-> 0, req |-> 0, ok |-> FALSE]

\* startTurn, lines 78-82: the finally block drops the controller and the
\* job id; a cancelIngest still in flight belongs to an earlier turn now
IngestFinally ==
  /\ jobId' = FALSE
  /\ aborted' = FALSE
  /\ cancelCall' = IF cancelCall = "own" THEN "old" ELSE cancelCall

\* startTurn, lines 69-82: startIngest threw o
TurnFails(o) ==
  /\ ingestOutcome' = o
  /\ ingestError' = IngestErrorOf(o)
  /\ IngestFinally
  /\ IF CatchReturns(o)
       THEN tpc' = "returned" /\ UNCHANGED streamVars
       ELSE /\ tpc' = "streaming"
            /\ \E input \in MessageInputs : StartStreamEffect(input)

\* startTurn, lines 78-109: startIngest resolved, the stream is started
TurnIngested ==
  /\ ingestOutcome' = Resolved
  /\ IngestFinally
  /\ tpc' = "streaming"
  /\ \E input \in MessageInputs : StartStreamEffect(input)
  /\ UNCHANGED ingestError

\* waitForIngest, lines 50-56: the head of the loop
LoopHead ==
  IF SignalAborted(aborted)
    THEN TurnFails(AbortFailure) /\ UNCHANGED polls
    ELSE /\ polls < MaxPolls
         /\ polls' = polls + 1
         /\ tpc' = "fetch"
         /\ jobId' = TRUE
         /\ UNCHANGED <<aborted, cancelCall, ingestOutcome, ingestError,
                        streamVars>>

\* startTurn, lines 44-45 and 86-109: a turn without attachments
StartTurnNoFiles(input) ==
  /\ tpc \in {"idle", "returned", "streaming"}
  /\ files' = FALSE
  /\ tpc' = "streaming"
  /\ StartStreamEffect(input)
  /\ polls' = 0
  /\ reported' = <<>>
  /\ ingestOutcome' = NoOutcome
  /\ lastPoll' = NoPoll
  /\ UNCHANGED <<aborted, jobId, cancelCall, ingestError, lastAnswer,
                 authVars, mergeVars, sessionVars>>

\* startTurn, lines 44-60, and startIngest, lines 16-20: a turn with
\* attachments sends POST /ingest
StartTurnWithFiles ==
  /\ tpc \in {"idle", "returned", "streaming"}
  /\ turn < MaxTurns
  /\ files' = TRUE
  /\ tpc' = "post"
  /\ ingestError' = "null"
  /\ aborted' = FALSE
  /\ jobId' = FALSE
  /\ polls' = 0
  /\ reported' = <<>>
  /\ ingestOutcome' = NoOutcome
  /\ lastPoll' = NoPoll
  /\ lastAnswer' = NoAnswer
  /\ UNCHANGED <<cancelCall, streamVars, authVars, mergeVars,
                 sessionVars>>

\* startIngest, lines 21-30: POST /ingest is answered ok, with a job id
\* (the poll starts) or without one (nothing to wait for)
PostAccepted(hasJob) ==
  /\ tpc = "post"
  /\ ~aborted
  /\ IF hasJob THEN LoopHead ELSE TurnIngested /\ UNCHANGED polls
  /\ lastAnswer' = Answer("submit", TRUE, "")
  /\ UNCHANGED <<files, reported, lastPoll, authVars, mergeVars,
                 sessionVars>>

\* startIngest, lines 21-24: POST /ingest is answered not ok
PostRefused(text) ==
  /\ tpc = "post"
  /\ ~aborted
  /\ TurnFails(Failure(OrElse(text, "Failed to start ingest.")))
  /\ lastAnswer' = Answer("submit", FALSE, text)
  /\ UNCHANGED <<files, polls, reported, lastPoll, authVars, mergeVars,
                 sessionVars>>

\* lines 16 and 53: the request in flight gets no response
RequestFails ==
  /\ tpc \in {"post", "fetch"}
  /\ ~aborted
  /\ TurnFails(NetFailure)
  /\ lastAnswer' = NoAnswer
  /\ UNCHANGED <<files, polls, reported, lastPoll, authVars, mergeVars,
                 sessionVars>>

\* lines 16-20 and 53-56: the signal is set while the request is in flight,
\* and the fetch rejects with AbortError
RequestAborted ==
  /\ tpc \in {"post", "fetch"}
  /\ aborted
  /\ TurnFails(AbortFailure)
  /\ lastAnswer' = NoAnswer
  /\ UNCHANGED <<files, polls, reported, lastPoll, authVars, mergeVars,
                 sessionVars>>

\* waitForIngest, lines 61-74: a status response
PollResponds(r) ==
  /\ tpc = "fetch"
  /\ ~aborted
  /\ lastPoll' = [n |-> polls, status |-> r.status, progress |-> r.progress,
                  error |-> r.error]
  /\ lastAnswer' = Answer("poll", TRUE, "")
  /\ reported' = IF ReportsProgress(r) THEN Append(reported, r.progress)
                 ELSE reported
  /\ IF PollVerdict(r) = Resolved THEN TurnIngested
     ELSE IF PollVerdict(r) = NoOutcome
       THEN /\ tpc' = "sleep"
            /\ UNCHANGED <<aborted, jobId, cancelCall, ingestOutcome,
                           ingestError, streamVars>>
       ELSE TurnFails(PollVerdict(r))
  /\ UNCHANGED <<files, polls, authVars, mergeVars,
                 sessionVars>>

\* waitForIngest, lines 57-60: the status request is answered not ok
PollRefused(text) ==
  /\ tpc = "fetch"
  /\ ~aborted
  /\ TurnFails(Failure(OrElse(text, "Failed to check ingest status.")))
  /\ lastAnswer' = Answer("poll", FALSE, text)
  /\ UNCHANGED <<files, polls, reported, lastPoll, authVars, mergeVars,
                 sessionVars>>

\* waitForIngest, line 74 and lines 49-56: the second is over
TimerFires ==
  /\ tpc = "sleep"
  /\ LoopHead
  /\ UNCHANGED <<files, reported, lastPoll, lastAnswer, authVars,
                 mergeVars, sessionVars>>

\* a cancel that sets the signal as it posts
OnCancelIngestAborts ==
  /\ tpc \in {"post", "fetch", "sleep"}
  /\ cancelCall = "none"
  /\ ~aborted
  /\ aborted' = TRUE
  /\ cancelCall' = IF jobId THEN "own" ELSE cancelCall
  /\ UNCHANGED <<tpc, files, jobId, polls, reported, ingestOutcome,
                 ingestError, lastPoll, lastAnswer, streamVars, authVars,
                 mergeVars, sessionVars>>

\* onCancelIngest, lines 184-196, and cancelIngest, lines 33-36: with a
\* job id the server is asked to cancel first, and the handler waits for
\* the answer; without one the signal is set at once
OnCancelIngest ==
  /\ tpc \in {"post", "fetch", "sleep"}
  /\ cancelCall = "none"
  /\ ~aborted
  /\ IF jobId THEN cancelCall' = "own" /\ UNCHANGED aborted
     ELSE aborted' = TRUE /\ UNCHANGED cancelCall
  /\ UNCHANGED <<tpc, files, jobId, polls, reported, ingestOutcome,
                 ingestError, lastPoll, lastAnswer, streamVars, authVars,
                 mergeVars, sessionVars>>

\* cancelIngest, lines 37-40, and onCancelIngest, lines 186-196: the
\* cancel request is answered; a response that is not ok makes cancelIngest
\* throw, the handler shows the error's message, and in either case the
\* controller the handler holds is aborted
CancelIngestReturns(ok, text) ==
  /\ cancelCall # "none"
  /\ cancelCall' = "none"
  /\ ok => text = ""
  /\ lastAnswer' = Answer("cancel", ok, text)
  /\ ingestError' = IF ok THEN ingestError
                    ELSE OrElse(text, "Failed to cancel ingest.")
  /\ aborted' = IF cancelCall = "own" THEN TRUE ELSE aborted
  /\ UNCHANGED <<tpc, files, jobId, polls, reported, ingestOutcome,
                 lastPoll, streamVars, authVars, mergeVars,
                 sessionVars>>

\* cancelIngest, line 34, and onCancelIngest, lines 188-194: the cancel
\* request gets no response; the handler shows the fetch's message
CancelRequestFails ==
  /\ cancelCall # "none"
  /\ cancelCall' = "none"
  /\ ingestError' = NetFailure.message
  /\ lastAnswer' = NoAnswer
  /\ aborted' = IF cancelCall = "own" THEN TRUE ELSE aborted
  /\ UNCHANGED <<tpc, files, jobId, polls, reported, ingestOutcome,
                 lastPoll, streamVars, authVars, mergeVars,
                 sessionVars>>

TurnNext ==
  \/ \E input \in Inputs : StartTurnNoFiles(input)
  \/ StartTurnWithFiles
  \/ \E hasJob \in BOOLEAN : PostAccepted(hasJob)
  \/ \E text \in BodyTexts : PostRefused(text)
  \/ RequestFails
  \/ RequestAborted
  \/ \E r \in StatusResponses : PollResponds(r)
  \/ \E text \in BodyTexts : PollRefused(text)
  \/ TimerFires
  \/ OnCancelIngest
  \/ \E ok \in BOOLEAN, text \in BodyTexts : CancelIngestReturns(ok, text)
  \/ CancelRequestFails

SpecTurn == TurnInit /\ [][TurnNext]_vars

\* a fetch whose signal is set rejects, and the timer of line 74 fires
FairSpecTurn ==
  /\ SpecTurn
  /\ WF_vars(RequestAborted)
  /\ WF_vars(TimerFires)

\* ======================================================================
\* The components that hold the session: AuthGate's check on page entry
\* (components/AuthGate.tsx), the login and signup forms (pages/Login.tsx,
\* pages/Signup.tsx) and logoutSession (utils/auth.ts).  AuthGate is the
\* only caller of the gateway here; the gateway's steps are those above.
\* ======================================================================
CredentialAnswers == Statuses \cup {NetErr}

SessionInit ==
  /\ store \in {NoToken, InitToken}
  /\ redirectingForAuth = FALSE
  /\ refreshPromise = NoPromise
  /\ refreshCalls = 0
  /\ netRefresh = {}
  /\ outcome = [k \in RefreshIds |-> Pending]
  /\ awaiting = <<>>
  /\ microq = <<>>
  /\ assigns = 0
  /\ lastRefresh = [id |-> NoPromise, st |-> None]
  /\ req = [i \in Reqs |-> IdleReq]
  /\ current = NoState
  /\ controller = NoController
  /\ conn = [s \in Streams |-> "none"]
  /\ turn = 0
  /\ lastEv = [kind |-> "none", s |-> 0]
  /\ inferredUsage = NoUsage
  /\ mleft = Undefined
  /\ mright = Undefined
  /\ mprev = Undefined
  /\ mout = Undefined
  /\ mcalls = 0
  /\ msplit = [k |-> -1, out |-> [kind |-> "undefined", list |-> <<>>]]
  /\ tpc = "idle"
  /\ files = FALSE
  /\ aborted = FALSE
  /\ jobId = FALSE
  /\ cancelCall = "none"
  /\ polls = 0
  /\ reported = <<>>
  /\ ingestOutcome = NoOutcome
  /\ ingestError = "null"
  /\ lastPoll = NoPoll
  /\ lastAnswer = [op |-> "none", ok |-> TRUE, text |-> ""]
  /\ gate = "idle"
  /\ form = "none"
  /\ loggingOut = FALSE
  /\ directRefresh = [gate |-> 0, page |-> 0]
  /\ ready = FALSE
  /\ stale = [pc |-> "none", refresh |-> 0, req |-> 0, ok |-> FALSE]

\* AuthGate, lines 29-31: authFetch("/me")
GateCallsMe ==
  /\ gate' = "me"
  /\ \E i \in Reqs : CallEffect(i, <<"me">>)

\* AuthGate, lines 14-18 and 28-31: a page is entered; with a credential in
\* the store /me is asked, without one refreshAuthToken is called, directly
GateEnter ==
  /\ gate \in {"idle", "ready", "login"}
  /\ microq = <<>>
  /\ IF store # NoToken
       THEN GateCallsMe /\ UNCHANGED <<refreshCalls, directRefresh>>
       ELSE /\ refreshCalls < MaxRefresh
            /\ refreshCalls' = refreshCalls + 1
            /\ gate' = "refresh"
            /\ directRefresh' = [directRefresh EXCEPT
                                  !.gate = refreshCalls + 1]
            /\ UNCHANGED req
  /\ UNCHANGED <<store, redirectingForAuth, refreshPromise, netRefresh,
                 outcome, awaiting, microq, assigns, lastRefresh, form,
                 loggingOut, ready, stale, nonSessionVars>>

NoStale == [pc |-> "none", refresh |-> 0, req |-> 0, ok |-> FALSE]
StaleOver(ok) == [pc |-> "over", refresh |-> 0, req |-> 0, ok |-> ok]

\* the request of the session check that is current
GateReq(i) == req[i].pc # "idle" /\ i # stale.req

\* AuthGate, lines 11-13 and 51-54: the route changes while the session
\* check runs; the effect is cleaned up (active = false), its check runs
\* on, and the effect runs again with a check of its own; ready is kept.
\* One cleaned-up check is followed at a time
RouteChange ==
  /\ gate \in {"refresh", "me"}
  /\ stale.pc \in {"none", "over"}
  /\ microq = <<>>
  /\ stale' = [pc |-> gate, refresh |-> directRefresh.gate,
               req |-> IF gate = "me" THEN CHOOSE i \in Reqs : GateReq(i)
                       ELSE 0,
               ok |-> FALSE]
  /\ IF store # NoToken
       THEN GateCallsMe
            /\ directRefresh' = [directRefresh EXCEPT !.gate = 0]
            /\ UNCHANGED refreshCalls
       ELSE /\ refreshCalls < MaxRefresh
            /\ refreshCalls' = refreshCalls + 1
            /\ gate' = "refresh"
            /\ directRefresh' = [directRefresh EXCEPT
                                  !.gate = refreshCalls + 1]
            /\ UNCHANGED req
  /\ UNCHANGED <<store, redirectingForAuth, refreshPromise, netRefresh,
                 outcome, awaiting, microq, assigns, lastRefresh, form,
                 loggingOut, ready, nonSessionVars>>

\* refreshAuthToken, lines 150-165, and AuthGate, lines 17-31, for the
\* check that was cleaned up: with a credential /me is asked, without one
\* the check returns and, active being false, does not navigate
StaleRefreshSettles(st) ==
  /\ stale.pc = "refresh"
  /\ microq = <<>>
  /\ store' = RefreshStore(st, IssuedToken(stale.refresh), store)
  /\ lastRefresh' = [id |-> stale.refresh, st |-> st]
  /\ IF Truthy(RefreshResult(st, IssuedToken(stale.refresh)))
       THEN \E i \in Reqs :
              /\ CallEffect(i, <<"me">>)
              /\ stale' = [pc |-> "me", refresh |-> 0, req |-> i,
                           ok |-> FALSE]
       ELSE stale' = StaleOver(FALSE) /\ UNCHANGED req
  /\ UNCHANGED <<redirectingForAuth, refreshPromise, refreshCalls,
                 netRefresh, outcome, awaiting, microq, assigns, gate, form,
                 loggingOut, directRefresh, ready, nonSessionVars>>

\* refreshAuthToken, lines 150-165, and AuthGate, lines 17-31: the direct
\* /refresh call ends; with a credential /me is asked, without one the
\* login page is shown
GateRefreshSettles(st) ==
  /\ gate = "refresh"
  /\ microq = <<>>
  /\ store' = RefreshStore(st, IssuedToken(directRefresh.gate), store)
  /\ lastRefresh' = [id |-> directRefresh.gate, st |-> st]
  /\ directRefresh' = [directRefresh EXCEPT !.gate = 0]
  /\ IF Truthy(RefreshResult(st, IssuedToken(directRefresh.gate)))
       THEN GateCallsMe /\ UNCHANGED ready
       ELSE gate' = "login" /\ ready' = FALSE /\ UNCHANGED req
  /\ UNCHANGED <<redirectingForAuth, refreshPromise, refreshCalls,
                 netRefresh, outcome, awaiting, microq, assigns, form,
                 loggingOut, stale, nonSessionVars>>

\* Login.ensureSession and Signup.ensureSession: the login or signup page
\* is shown while the store is empty, and refreshAuthToken is called,
\* directly
PageEnter ==
  /\ directRefresh.page = 0
  /\ microq = <<>>
  /\ store = NoToken
  /\ refreshCalls < MaxRefresh
  /\ refreshCalls' = refreshCalls + 1
  /\ directRefresh' = [directRefresh EXCEPT !.page = refreshCalls + 1]
  /\ UNCHANGED <<store, redirectingForAuth, refreshPromise, netRefresh,
                 outcome, awaiting, microq, assigns, lastRefresh, req, gate,
                 form, loggingOut, ready, stale, nonSessionVars>>

\* refreshAuthToken, lines 150-165, for the page's session check: with a
\* credential the page navigates on, without one it stays
PageRefreshSettles(st) ==
  /\ directRefresh.page # 0
  /\ microq = <<>>
  /\ store' = RefreshStore(st, IssuedToken(directRefresh.page), store)
  /\ lastRefresh' = [id |-> directRefresh.page, st |-> st]
  /\ directRefresh' = [directRefresh EXCEPT !.page = 0]
  /\ UNCHANGED <<redirectingForAuth, refreshPromise, refreshCalls,
                 netRefresh, outcome, awaiting, microq, assigns, req, gate,
                 form, loggingOut, ready, stale, nonSessionVars>>

\* a session check that clears the store whatever /me answers
GateClearsAlways(ok) == TRUE

\* AuthGate, lines 32-39: the catch block, entered unless /me answers ok
GateClears(ok) == ~ok

\* AuthGate, lines 29-46: authFetch("/me") is over; an answer that is not
\* ok, or a failure, clears the store and shows the login page, which is
\* outside the gate: AuthGate is unmounted and its state ready is gone
GateResumes(i) ==
  /\ gate = "me"
  /\ i # stale.req
  /\ ReturnEffect(i)
  /\ gate' = IF req[i].pc = "done" /\ IsOk(req[i].out) THEN "ready"
             ELSE "login"
  /\ ready' = (req[i].pc = "done" /\ IsOk(req[i].out))
  /\ store' = IF GateClears(req[i].pc = "done" /\ IsOk(req[i].out))
                THEN NoToken ELSE store
  /\ UNCHANGED <<redirectingForAuth, refreshPromise, refreshCalls,
                 netRefresh, outcome, awaiting, assigns, lastRefresh, form,
                 loggingOut, directRefresh, stale, nonSessionVars>>

\* a cleaned-up check that acts as if it were the current one
StaleResumesActive(i) ==
  /\ stale.pc = "me"
  /\ i = stale.req
  /\ ReturnEffect(i)
  /\ stale' = StaleOver(req[i].pc = "done" /\ IsOk(req[i].out))
  /\ gate' = IF req[i].pc = "done" /\ IsOk(req[i].out) THEN gate
             ELSE "login"
  /\ ready' = (req[i].pc = "done" /\ IsOk(req[i].out))
  /\ store' = IF GateClears(req[i].pc = "done" /\ IsOk(req[i].out))
                THEN NoToken ELSE store
  /\ UNCHANGED <<redirectingForAuth, refreshPromise, refreshCalls,
                 netRefresh, outcome, awaiting, assigns, lastRefresh, form,
                 loggingOut, directRefresh, nonSessionVars>>

\* AuthGate, lines 29-46, for the check that was cleaned up: active is
\* false, so it neither sets ready nor navigates; the store is cleared
\* all the same when /me fails
StaleResumes(i) ==
  /\ stale.pc = "me"
  /\ i = stale.req
  /\ ReturnEffect(i)
  /\ stale' = StaleOver(req[i].pc = "done" /\ IsOk(req[i].out))
  /\ store' = IF GateClears(req[i].pc = "done" /\ IsOk(req[i].out))
                THEN NoToken ELSE store
  /\ UNCHANGED <<redirectingForAuth, refreshPromise, refreshCalls,
                 netRefresh, outcome, awaiting, assigns, lastRefresh, gate,
                 form, loggingOut, directRefresh, ready, nonSessionVars>>

\* Login submit, lines 19-33, and Signup submit, lines 55-83
FormSubmit(f) ==
  /\ form = "none"
  /\ microq = <<>>
  /\ form' = f
  /\ UNCHANGED <<authVars, gate, loggingOut, directRefresh, ready, stale,
                 nonSessionVars>>

\* Login submit, lines 34-45, and Signup submit, lines 84-95: an ok answer
\* carries the access token, which is stored
FormAnswered(st) ==
  /\ form # "none"
  /\ microq = <<>>
  /\ form' = "none"
  /\ store' = IF st # NetErr /\ IsOk(st) THEN InitToken ELSE store
  /\ UNCHANGED <<redirectingForAuth, refreshPromise, refreshCalls,
                 netRefresh, outcome, awaiting, microq, assigns,
                 lastRefresh, req, gate, loggingOut, directRefresh, ready,
                 stale, nonSessionVars>>

\* logoutSession, lines 167-169
LogoutCalled ==
  /\ ~loggingOut
  /\ microq = <<>>
  /\ loggingOut' = TRUE
  /\ UNCHANGED <<authVars, gate, form, directRefresh, ready, stale,
                 nonSessionVars>>

\* logoutSession, lines 169-174: whatever POST /logout ends with, the
\* finally block clears the store
LogoutSettles ==
  /\ loggingOut
  /\ microq = <<>>
  /\ loggingOut' = FALSE
  /\ store' = NoToken
  /\ UNCHANGED <<redirectingForAuth, refreshPromise, refreshCalls,
                 netRefresh, outcome, awaiting, microq, assigns,
                 lastRefresh, req, gate, form, directRefresh, ready, stale,
                 nonSessionVars>>

SessionNext ==
  \/ GateEnter
  \/ \E st \in RefreshAnswers : GateRefreshSettles(st)
  \/ PageEnter
  \/ \E st \in RefreshAnswers : PageRefreshSettles(st)
  \/ \E i \in Reqs : GateResumes(i)
  \/ RouteChange
  \/ \E st \in RefreshAnswers : StaleRefreshSettles(st)
  \/ \E i \in Reqs : StaleResumes(i)
  \/ \E f \in {"login", "signup"} : FormSubmit(f)
  \/ \E st \in CredentialAnswers : FormAnswered(st)
  \/ LogoutCalled
  \/ LogoutSettles
  \/ \E i \in Reqs : FetchFails(i)
  \/ \E i \in Reqs, st \in Statuses : Respond(i, st)
  \/ \E i \in Reqs, st \in Statuses : RespondUnauthorized(i, st)
  \/ \E k \in RefreshIds, st \in RefreshAnswers : RefreshSettles(k, st)
  \/ \E i \in Reqs : ResumeRetry(i)
  \/ \E i \in Reqs : ResumeTerminate(i)
  \/ \E i \in Reqs, st \in Statuses : RetryResponds(i, st)
  \/ \E i \in Reqs : RetryFails(i)

SpecSession == SessionInit /\ [][SessionNext]_vars

\* ------------------------------------------------- gateway: properties
InMicroq(i) == \E n \in 1..Len(microq) : microq[n] = i
Suspended(i) == req[i].pc = "await" /\ ~InMicroq(i)
Finished(i) == req[i].pc = "done"
RefreshUrl == <<"refresh">>

\* C1: the session-ended side effect (clear the store, redirect) is
\* performed at most once in a page life, exactly once when a call found
\* that refresh yields no credential, and each such call returns the
\* 401/403 it received.
C1_SessionEndedOnce ==
  /\ assigns <= 1
  /\ \A i \in Reqs :
       Finished(i) /\ req[i].newToken = NoToken =>
         /\ assigns = 1
         /\ IsAuthFailure(req[i].out)
         /\ req[i].out = req[i].last

\* C2: at most one /refresh call is in flight, it is the one the marker
\* names, and every suspended caller waits for that same call: the callers
\* that arrive while it is in flight add no call.
C2_SingleFlight ==
  /\ Cardinality(netRefresh) <= 1
  /\ refreshPromise # NoPromise => netRefresh = {refreshPromise}
  /\ \A i \in Reqs : Suspended(i) => netRefresh = {req[i].joined}

C2_Witness ==
  /\ Cardinality({i \in Reqs : Suspended(i)}) >= 3
  /\ refreshCalls = 1

\* C3: a call contacts its target at most twice and the coordinator at most
\* once, and a call that retried returns the answer of the retry.
C3_RetryOnce ==
  \A i \in Reqs :
    /\ req[i].fetches <= 2
    /\ req[i].refreshes <= 1
    /\ Finished(i) /\ req[i].fetches = 2 => req[i].out = req[i].last

C3_Witness ==
  \E i \in Reqs :
    /\ Finished(i) /\ req[i].fetches = 2 /\ req[i].refreshes = 1
    /\ Truthy(req[i].newToken)
    /\ IsAuthFailure(req[i].out)

\* C4: every caller that joined a refresh gets what that refresh settled
\* to, so two callers of the same refresh get the same credential or both
\* get null.
C4_SameOutcome ==
  /\ \A i \in Reqs :
       req[i].newToken # None => req[i].newToken = outcome[req[i].joined]
  /\ \A i, j \in Reqs :
       /\ req[i].newToken # None /\ req[j].newToken # None
       /\ req[i].joined = req[j].joined
       => req[i].newToken = req[j].newToken

C4_Witness ==
  \E i, j \in Reqs :
    /\ i # j /\ req[i].joined = req[j].joined
    /\ Truthy(req[i].newToken) /\ Truthy(req[j].newToken)

C4_WitnessNull ==
  \E i, j \in Reqs :
    /\ i # j /\ req[i].joined = req[j].joined
    /\ req[i].newToken = NoToken /\ req[j].newToken = NoToken

\* C5: the marker is set only while its /refresh call is in flight, no
\* suspended caller waits for a call that has ended, a coordinator call
\* made while no refresh is in flight issues exactly one /refresh call, and
\* (the network ending every /refresh call) again and again no caller is
\* suspended: every wait ends.
C5_MarkerCleared ==
  /\ [](/\ refreshPromise # NoPromise => refreshPromise \in netRefresh
        /\ \A i \in Reqs : Suspended(i) => req[i].joined \in netRefresh)
  /\ [][\A i \in Reqs :
          req[i].pc = "fetch1" /\ req'[i].pc = "await" /\ netRefresh = {}
          => /\ refreshCalls' = refreshCalls + 1
             /\ netRefresh' = {refreshCalls'}
             /\ req'[i].joined = refreshCalls']_vars
  /\ []<>(\A i \in Reqs : req[i].pc # "await")

C5_Witness ==
  /\ refreshCalls = 2
  /\ outcome[1] # Pending
  /\ netRefresh = {2}
  /\ \E i \in Reqs : Suspended(i) /\ req[i].joined = 2

\* C6: when a /refresh call ends with an ok answer the store holds the
\* issued credential and the promise settles to it; when it ends otherwise
\* (another status, a network error) the promise settles to null and the
\* store is as before.
C6_RefreshWritesStore ==
  [][lastRefresh' # lastRefresh =>
       LET k == lastRefresh'.id
           st == lastRefresh'.st
       IN IF st = 200
            THEN store' = IssuedToken(k) /\ outcome'[k] = IssuedToken(k)
            ELSE store' = store /\ outcome'[k] = NoToken]_vars

C6_Witness ==
  /\ lastRefresh.id = 2 /\ lastRefresh.st # 200
  /\ outcome[1] = IssuedToken(1)
  /\ store = IssuedToken(1)
  /\ outcome[2] = NoToken

\* C7: a call whose target is /refresh never calls the coordinator and
\* never retries; its 401/403 is returned with the latch set.
C7_NoRecursion ==
  \A i \in Reqs :
    req[i].url = RefreshUrl =>
      /\ req[i].refreshes = 0
      /\ req[i].fetches <= 1
      /\ req[i].pc \notin {"await", "fetch2"}
      /\ Finished(i) /\ IsAuthFailure(req[i].out) => redirectingForAuth

C7_Witness ==
  \E i \in Reqs :
    /\ req[i].url = RefreshUrl /\ Finished(i) /\ IsAuthFailure(req[i].out)
    /\ assigns = 1 /\ refreshCalls = 0

\* C8: a call throws only when one of its fetches got no response; with a
\* response of any status it returns a response, and after a refresh that
\* yields no credential that is the 401/403 it received.
C8_NeverThrows ==
  \A i \in Reqs :
    /\ req[i].pc = "threw" => req[i].last = NetErr
    /\ Finished(i) => req[i].out \in Statuses /\ req[i].out = req[i].last
    /\ Finished(i) /\ req[i].newToken = NoToken => IsAuthFailure(req[i].out)

C8_Witness ==
  \E i \in Reqs :
    /\ Finished(i) /\ req[i].newToken = NoToken /\ req[i].out = 403
    /\ lastRefresh.st = NetErr

C10_TerminalStatus ==
  [][current.status \in {"done", "error"} /\ turn' = turn
     => current'.status = current.status]_vars

\* C11: when the usage of the Stream State is the payload of a usage event
\* (the payloads differ from every total a fragment carries), a data event
\* of the same turn leaves it as it is, whatever usage its fragment infers.
C11_UsagePrecedence ==
  [][/\ current.usage \in UsagePayloads
     /\ lastEv'.kind = "data" /\ turn' = turn
     => current'.usage = current.usage]_vars

C11_Witness ==
  /\ lastEv.kind = "data"
  /\ inferredUsage # NoUsage
  /\ current.usage \in UsagePayloads
  /\ inferredUsage \notin UsagePayloads

\* C22: within a turn, a usage that a data event inferred (it is none of
\* the payloads of the usage events) is changed by no step but a usage
\* event, whatever the later fragments carry.
C22_FirstInferredWins ==
  [][/\ current.usage # NoUsage /\ current.usage \notin UsagePayloads
     /\ turn' = turn
     /\ current'.usage # current.usage
     => lastEv'.kind = "usage" /\ current'.usage \in UsagePayloads]_vars

C22_Witness ==
  /\ lastEv.kind = "data"
  /\ current.usage = 5
  /\ inferredUsage = 8

\* C14: in every state of the streaming client the messages of the
\* transcript have different identities, whatever the events were, a
\* fragment that names an identity twice included.
C14_UniqueIdentities == UniqueIds(Unwrap(current.messages))

C14_Witness ==
  /\ lastEv.kind = "data"
  /\ Len(Unwrap(current.messages)) = 2
  /\ Unwrap(current.messages)[2] = [id |-> 2, content |-> "x", total |-> 0]

\* C18: a 401/403 answer to POST /runs/stream calls the refresh
\* coordinator: the step that takes the answer starts a /refresh call or
\* joins the one in flight.
C18_StreamThroughGateway ==
  [][(\E s \in Streams : conn[s] = "connecting" /\ conn'[s] = "failed")
     /\ lastEv'.kind = "unauthorized"
     => \/ refreshCalls' = refreshCalls + 1
        \/ refreshPromise # NoPromise]_vars

\* ---------------------------------------------------- merge: properties
\* the reference merge, stated by positions: every entry of A stays where
\* it is and carries the last message of B with its identity, if B has one;
\* the identities of B that A lacks follow in the order B first names
\* them, each with the last message of B that has it
LastWithId(B, id) ==
  B[CHOOSE n \in 1..Len(B) :
      B[n].id = id /\ \A k \in (n + 1)..Len(B) : B[k].id # id]

RefKept(A, B) ==
  [n \in 1..Len(A) |->
     IF A[n].id \in IdsOf(B) THEN LastWithId(B, A[n].id) ELSE A[n]]

RefNewAt(A, B) ==
  {n \in 1..Len(B) :
     B[n].id \notin IdsOf(A) /\ \A k \in 1..(n - 1) : B[k].id # B[n].id}

RefAdded(A, B) ==
  [r \in 1..Cardinality(RefNewAt(A, B)) |->
     LET n == CHOOSE m \in RefNewAt(A, B) :
                Cardinality({k \in RefNewAt(A, B) : k < m}) = r - 1
     IN LastWithId(B, B[n].id)]

RefMerge(A, B) == RefKept(A, B) \o RefAdded(A, B)

MsgOf(i, c) == [id |-> i, content |-> c, total |-> 0]

\* C12: the result of mergeMessagesById(A, B) is a bare array and equals
\* the reference merge of the unwrapped A and B.
C12_MergeIsReference ==
  mcalls = 1 =>
    /\ mout.kind = "array"
    /\ mout.list = RefMerge(Unwrap(mleft), Unwrap(mright))

\* A = [1, 2], B = [2 with content x, 3] gives [1, 2 with content x, 3]
C12_Witness ==
  /\ mcalls = 1
  /\ mleft = Wrapped(<<MsgOf(1, "a"), MsgOf(2, "a")>>)
  /\ mright = Bare(<<MsgOf(2, "x"), MsgOf(3, "a")>>)
  /\ mout = Bare(<<MsgOf(1, "a"), MsgOf(2, "x"), MsgOf(3, "a")>>)

\* C13: when every identity of the fragment is in the transcript, the
\* merge keeps the length and the identity at every position and changes
\* no entry whose identity the fragment lacks; merging the fragment again
\* returns the same transcript.
C13_MergeIdempotent ==
  LET A == Unwrap(mleft)
      B == Unwrap(mright)
  IN /\ mcalls = 1 /\ IdsOf(B) \subseteq IdsOf(A) =>
          /\ Len(mout.list) = Len(A)
          /\ \A n \in 1..Len(A) :
               /\ mout.list[n].id = A[n].id
               /\ A[n].id \notin IdsOf(B) => mout.list[n] = A[n]
     /\ mcalls = 2 => mout = mprev

C13_Witness ==
  /\ mcalls = 2
  /\ mleft = Bare(<<MsgOf(1, "a"), MsgOf(2, "a")>>)
  /\ mright = Bare(<<MsgOf(2, "a"), MsgOf(2, "x")>>)
  /\ mout = Bare(<<MsgOf(1, "a"), MsgOf(2, "x")>>)
  /\ mprev = mout

\* ----------------------------------------------------- turn: properties
\* the step handles a status response
Handles == lastPoll'.n # 0 /\ lastPoll' # lastPoll
TerminalStatuses == {"done", "error", "canceled"}

\* C15: a status response done resolves the operation (the stream starts);
\* error rejects with the server's message, or "Ingest failed." when it
\* gives none; canceled rejects with the AbortError kind, which the page
\* shows as a cancellation; any other status reports the progress and, when
\* the second is over and the signal is not set, the next request is sent.
C15_PollMapping ==
  /\ [][Handles =>
          LET r == lastPoll'
          IN CASE r.status = "done" ->
                    ingestOutcome' = Resolved /\ tpc' = "streaming"
               [] r.status = "error" ->
                    /\ ingestOutcome'.kind = "error"
                    /\ ingestOutcome'.message =
                         (IF r.error = "" THEN "Ingest failed." ELSE r.error)
                    /\ ingestError' = ingestOutcome'.message
                    /\ tpc' = "returned"
               [] r.status = "canceled" ->
                    /\ ingestOutcome'.kind = "abort"
                    /\ ingestError' = "Upload canceled."
                    /\ tpc' = "returned"
               [] OTHER ->
                    /\ ingestOutcome' = NoOutcome /\ tpc' = "sleep"
                    /\ r.progress # NoProgress =>
                         reported' = Append(reported, r.progress)]_vars
  /\ [][tpc = "sleep" /\ ~aborted /\ tpc' # tpc =>
          tpc' = "fetch" /\ polls' = polls + 1]_vars

C15_Witness ==
  /\ tpc = "fetch" /\ polls = 2
  /\ lastPoll = [n |-> 1, status |-> "queued", progress |-> 6, error |-> ""]
  /\ reported = <<6>>

\* C16 as stated: once the signal is set no further status request is
\* sent and the poll fails with the cancellation kind at the head of the
\* next iteration, while the request in flight is left to end: its response
\* is handled.
C16_InFlightNotPreempted ==
  [][aborted /\ tpc \in {"fetch", "sleep"} =>
       /\ polls' = polls
       /\ tpc = "sleep" /\ tpc' # tpc =>
            tpc' = "returned" /\ ingestOutcome' = AbortFailure
       /\ tpc = "fetch" /\ tpc' # tpc => lastPoll'.n = polls]_vars

\* C16, amended: once the signal is set no further status request is sent
\* and no response is handled; the poll ends, at the head of the next
\* iteration or by the rejection of the request in flight, with the
\* cancellation kind and without a stream.
C16_SignalEndsPoll ==
  [][aborted /\ tpc \in {"fetch", "sleep"} =>
       /\ polls' = polls
       /\ lastPoll' = lastPoll
       /\ reported' = reported
       /\ tpc' # tpc =>
            /\ tpc' = "returned"
            /\ ingestOutcome' = AbortFailure
            /\ turn' = turn]_vars

C16_Witness ==
  /\ tpc = "returned"
  /\ ingestOutcome = AbortFailure
  /\ lastPoll.n = polls
  /\ lastPoll.status = "running"

\* C17 as stated: the callback is called with the progress of every
\* response that is not terminal and is not called for a terminal one.
C17_NoTerminalProgress ==
  [][Handles =>
       IF lastPoll'.status \in TerminalStatuses
         THEN reported' = reported
         ELSE lastPoll'.progress # NoProgress =>
                reported' = Append(reported, lastPoll'.progress)]_vars

\* C17, amended: the callback is called once for every status response
\* whose progress is a number, the terminal one included, in the order of
\* the responses, and at no other step of the turn; for (running, 0.2),
\* (running, 0.6), (done, 1.0) the calls are 0.2, 0.6, 1.0.
C17_ProgressEveryResponse ==
  [][IF Handles
       THEN reported' = IF lastPoll'.progress # NoProgress
                          THEN Append(reported, lastPoll'.progress)
                          ELSE reported
       ELSE reported' = reported \/ (reported' = <<>> /\ polls' = 0)]_vars

C17_Witness ==
  /\ reported = <<2, 6, 10>>
  /\ lastPoll = [n |-> 3, status |-> "done", progress |-> 10, error |-> ""]
  /\ ingestOutcome = Resolved
  /\ tpc = "streaming"

\* C19: the stream of a turn with attachments is started by the step in
\* which startIngest resolves, and the step in which startIngest fails
\* (an error, a cancellation) starts no stream and ends the turn.
C19_StreamAfterIngest ==
  [][/\ turn' # turn /\ files' =>
          /\ tpc \in {"post", "fetch"}
          /\ ingestOutcome' = Resolved
     /\ ingestOutcome'.kind \in {"error", "abort"} =>
          turn' = turn /\ tpc' = "returned"]_vars

C19_Witness ==
  /\ tpc = "streaming" /\ files
  /\ ingestOutcome = Resolved
  /\ lastPoll.status = "done"
  /\ turn = 1 /\ conn[1] = "connecting"

\* -------------------------------------------------- session: properties
\* C20: the store changes only in a step that stores the credential of an
\* ok login, signup or refresh answer, or in the step of the gateway's
\* session-termination guard, which clears it, sets the latch and
\* redirects.
C20_StoreWriters ==
  [][store' # store =>
       IF store' = NoToken
         THEN assigns' = assigns + 1 /\ redirectingForAuth'
         ELSE \/ form # "none" /\ form' = "none"
              \/ lastRefresh' # lastRefresh /\ lastRefresh'.st = 200]_vars

\* C20, amended: the store is set only in a step that stores the
\* credential of a login, signup or refresh answer, and cleared only by
\* the gateway's guard, by the session check when /me fails, or by logout.
C20_StoreWritersAndClearers ==
  [][store' # store =>
       IF store' = NoToken
         THEN \/ assigns' = assigns + 1 /\ redirectingForAuth'
              \/ gate = "me" /\ gate' = "login"
              \/ stale.pc = "me" /\ stale'.pc = "over"
              \/ loggingOut /\ ~loggingOut'
         ELSE \/ form # "none" /\ form' = "none"
              \/ lastRefresh' # lastRefresh /\ lastRefresh'.st = 200]_vars

C20_Witness ==
  /\ gate = "login"
  /\ store = NoToken
  /\ refreshCalls = 0
  /\ ~redirectingForAuth
  /\ ~loggingOut

\* the /refresh calls in flight, whoever made them
RefreshInFlight ==
  netRefresh
    \cup ({directRefresh.gate, directRefresh.page, stale.refresh} \ {0})

\* C21: at most one /refresh call is in flight, the coordinator's and the
\* direct ones of the session checks counted together.
C21_OneRefreshInProcess == Cardinality(RefreshInFlight) <= 1
\* ------------------------------------------------ the events of a stream
\* every step of the hook writes lastEv, so a step that leaves lastEv'.kind
\* at "usage" (or "data", ...) and changes the state is that handler's

\* C23: a usage event sets usage to its payload, whatever was recorded,
\* and leaves status, transcript and run_id as they were.
C23_UsageEventSets ==
  [][lastEv'.kind = "usage"
     => /\ current'.usage = lastEv'.payload
        /\ current'.status = current.status
        /\ current'.messages = current.messages
        /\ current'.run_id = current.run_id]_vars

C23_Witness ==
  /\ lastEv.kind = "usage"
  /\ current.usage = 9
  /\ inferredUsage = 5
  /\ current.status = "error"

\* C24: a data event that finds no usage recorded writes the usage of the
\* last message of the merged transcript that carries one, and none when
\* no message of the merged transcript carries one.
C24_InfersFromMerged ==
  [][lastEv'.kind = "data" /\ current.usage = NoUsage
     => current'.usage = extractUsage(current'.messages)]_vars

\* the identities of a transcript, in its order
IdSeq(m) == [n \in 1..Len(Unwrap(m)) |-> Unwrap(m)[n].id]
IsPrefix(a, b) == Len(a) <= Len(b) /\ SubSeq(b, 1, Len(a)) = a

\* C25: the identities of the transcript before a data event are a prefix
\* of its identities after the event.
C25_IdentitiesGrowAtEnd ==
  [][lastEv'.kind = "data"
     => IsPrefix(IdSeq(current.messages), IdSeq(current'.messages))]_vars

C25_Witness ==
  /\ lastEv.kind = "data"
  /\ Len(Unwrap(current.messages)) = 2
  /\ Unwrap(current.messages)[1] = [id |-> 1, content |-> "x", total |-> 0]
  /\ Unwrap(current.messages)[2].id = 2

\* C27: a metadata event sets run_id and leaves transcript and usage; an
\* error event sets status to error and leaves transcript, run_id and
\* usage.
C27_MetadataAndErrorFrame ==
  [][/\ lastEv'.kind = "metadata"
        => /\ current'.run_id = lastEv'.s
           /\ current'.messages = current.messages
           /\ current'.usage = current.usage
     /\ lastEv'.kind = "error"
        => /\ current'.status = "error"
           /\ current'.messages = current.messages
           /\ current'.run_id = current.run_id
           /\ current'.usage = current.usage]_vars

C27_Witness ==
  /\ lastEv.kind = "error"
  /\ current.status = "error"
  /\ current.run_id # NoRun
  /\ current.usage # NoUsage
  /\ Len(Unwrap(current.messages)) = 2

\* C28: a transport error sets status to error, leaves transcript, run_id
\* and usage, and makes the call of startStream fail.
C28_TransportError ==
  [][lastEv'.kind \in {"transport", "refused", "unauthorized"}
     => /\ current'.status = "error"
        /\ current'.messages = current.messages
        /\ current'.run_id = current.run_id
        /\ current'.usage = current.usage
        /\ conn'[lastEv'.s] = "failed"]_vars

C28_Witness ==
  /\ lastEv = [kind |-> "transport", s |-> 1]
  /\ conn[1] = "failed"
  /\ current.status = "error"
  /\ current.run_id # NoRun
  /\ current.usage # NoUsage
  /\ Len(Unwrap(current.messages)) = 2

\* C29: after stop(clear) the transport of the turn's stream is over; with
\* clear the state has no transcript and the run_id and usage it had,
\* without clear transcript, run_id and usage are as they were.
C29_StopAbortsAndKeeps ==
  [][lastEv'.kind = "stop"
     => /\ turn > 0 => conn'[turn] \notin {"connecting", "open"}
        /\ \/ current'.messages = Undefined
           \/ current'.messages = current.messages
        /\ current'.run_id = current.run_id
        /\ current'.usage = current.usage]_vars
\* C26: merging a fragment's messages in two parts, one after the other,
\* gives the transcript that merging them in one step gave (mprev, the
\* result of the first call).
C26_SplitIndependent ==
  msplit.k # -1 => msplit.out = mprev

C26_Witness ==
  /\ msplit.k = 1
  /\ Len(Unwrap(mleft)) = 2
  /\ Len(Unwrap(mright)) = 2
  /\ Unwrap(mright)[1].id = Unwrap(mright)[2].id
  /\ Unwrap(mright)[1].id \notin IdsOf(Unwrap(mleft))
  /\ Len(Unwrap(msplit.out)) = 3
\* C30: posting the cancel request sets no signal and moves no poll; while
\* the request is in flight the timer still leads to the next status
\* request, and a status request ends the poll only by what the server
\* answered (a terminal status, a refusal) or by a failed fetch.
C30_CancelOnlyPosts ==
  [][/\ cancelCall = "none" /\ cancelCall' = "own"
        => /\ aborted' = aborted
           /\ tpc' = tpc
           /\ polls' = polls
           /\ ingestOutcome' = ingestOutcome
     /\ cancelCall = "own" /\ tpc = "sleep" /\ tpc' # "sleep"
        => tpc' = "fetch" /\ polls' = polls + 1
     /\ cancelCall = "own" /\ tpc = "fetch" /\ tpc' \notin {"fetch", "sleep"}
        => \/ lastPoll'.n = polls /\ lastPoll'.status \in TerminalStatuses
           \/ ingestOutcome'.kind = "error"]_vars

\* the cancel request was still in flight when the server's answer
\* canceled ended the poll
C30_Witness ==
  /\ cancelCall = "old"
  /\ lastPoll.status = "canceled"
  /\ lastPoll.n = 2
  /\ ingestOutcome = AbortFailure
\* C31: a request that is retried after a refresh sends, in its
\* Authorization header, the credential that this refresh returned, which
\* is not the one the first attempt was made with.
C31_RetryCarriesRefreshed ==
  \A i \in Reqs :
    req[i].pc = "fetch2"
      => /\ req[i].hdr = req[i].newToken
         /\ req[i].hdr = IssuedToken(req[i].joined)
         /\ req[i].hdr \notin {NoToken, InitToken}

\* two retries in flight, each after another refresh
C31_Witness ==
  \E i, j \in Reqs :
    /\ req[i].pc = "fetch2" /\ req[i].hdr = IssuedToken(1)
    /\ req[j].pc = "fetch2" /\ req[j].hdr = IssuedToken(2)
\* the message of an operation that a response refused
RefusalMessage(fallback) ==
  IF lastAnswer'.text # "" THEN lastAnswer'.text ELSE fallback

\* C32: a response that is not ok makes the submit, the status poll and
\* the cancel fail with the body text, or with the operation's own fixed
\* message when the body is empty; a refused status poll ends the poll.
C32_RefusalFails ==
  [][/\ tpc = "post" /\ tpc' # "post"
        /\ lastAnswer'.op = "submit" /\ ~lastAnswer'.ok
        => ingestOutcome' = Failure(RefusalMessage("Failed to start ingest."))
     /\ tpc = "fetch" /\ tpc' # "fetch"
        /\ lastAnswer'.op = "poll" /\ ~lastAnswer'.ok
        => /\ ingestOutcome' =
                Failure(RefusalMessage("Failed to check ingest status."))
           /\ tpc' \notin {"fetch", "sleep"}
           /\ polls' = polls
     /\ cancelCall # "none" /\ cancelCall' = "none"
        /\ lastAnswer'.op = "cancel" /\ ~lastAnswer'.ok
        => ingestError' = RefusalMessage("Failed to cancel ingest.")]_vars

\* the second status request was refused with an empty body
C32_Witness ==
  /\ lastAnswer = Answer("poll", FALSE, "")
  /\ polls = 2
  /\ ingestOutcome = Failure("Failed to check ingest status.")
  /\ tpc = "returned"
\* the poll of waitForIngest is running
InPoll == tpc \in {"fetch", "sleep"}

\* C33: once the signal is set the running poll ends; a terminal status
\* in a status response ends it in the step that handles the response; and
\* the timer leads to a further status request only after a response
\* whose status is not terminal.
C33_PollCompletes ==
  /\ [](InPoll /\ aborted => <>(~InPoll))
  /\ [][/\ Handles /\ lastPoll'.status \in TerminalStatuses
           => ~InPoll' /\ ingestOutcome' # NoOutcome
        /\ tpc = "sleep" /\ tpc' = "fetch"
           => /\ lastPoll.n = polls
              /\ lastPoll.status \notin TerminalStatuses
              /\ polls' = polls + 1]_vars

\* the last status was running, the cancel request returned and the
\* signal, set by the handler, ended the poll
C33_Witness ==
  /\ tpc = "returned"
  /\ ingestOutcome = AbortFailure
  /\ lastAnswer.op = "cancel"
  /\ cancelCall = "none"
  /\ lastPoll.status = "running"
  /\ lastPoll.n = polls
  /\ polls = 2
\* what a stream delivers to the hook's callbacks
StreamEventKinds ==
  {"data", "metadata", "usage", "error", "close", "transport", "refused",
   "unauthorized"}

\* C34: an event of an earlier turn's stream leaves the Stream State of
\* the new turn as it is, and startStream leaves no earlier stream
\* connecting or open.
C34_EarlierStreamIsolated ==
  [][/\ lastEv'.kind \in StreamEventKinds /\ lastEv'.s < turn
        => current' = current
     /\ lastEv'.kind = "start"
        => \A s \in Streams :
             s < turn' => conn'[s] \notin {"connecting", "open"}]_vars
\* C35: when the retry made after a refresh is answered 401 or 403, the
\* latch, the store and the count of redirects are as before the answer,
\* and the answer is what the call returns.
C35_RefusedRetryEndsNothing ==
  [][\A i \in Reqs :
       /\ req[i].pc = "fetch2" /\ req'[i].pc = "done"
       /\ IsAuthFailure(req'[i].last)
       => /\ redirectingForAuth' = redirectingForAuth
          /\ store' = store
          /\ assigns' = assigns
          /\ req'[i].out = req'[i].last]_vars

\* a refused retry has returned: no latch, and the store holds the
\* credential of the refresh
C35_Witness ==
  \E i \in Reqs :
    /\ req[i].pc = "done" /\ req[i].fetches = 2
    /\ IsAuthFailure(req[i].last)
    /\ ~redirectingForAuth
    /\ assigns = 0
    /\ store = req[i].newToken
\* C36: the latch, once set, stays set; and a request whose 401 or 403
\* arrives while it is set returns that response: no refresh call, no
\* further fetch, and the store and the count of redirects as before.
C36_LatchMonotonic ==
  [][/\ redirectingForAuth => redirectingForAuth'
     /\ \A i \in Reqs :
          /\ redirectingForAuth
          /\ req[i].pc \in {"fetch1", "fetch2"} /\ req'[i].pc # req[i].pc
          /\ IsAuthFailure(req'[i].last)
          => /\ req'[i].pc = "done"
             /\ req'[i].out = req'[i].last
             /\ req'[i].fetches = req[i].fetches
             /\ req'[i].refreshes = req[i].refreshes
             /\ refreshCalls' = refreshCalls
             /\ netRefresh' = netRefresh
             /\ store' = store
             /\ assigns' = assigns]_vars

\* a first attempt was refused after the latch was set, and returned
C36_Witness ==
  \E i \in Reqs :
    /\ redirectingForAuth
    /\ req[i].pc = "done" /\ req[i].fetches = 1 /\ req[i].refreshes = 0
    /\ IsAuthFailure(req[i].last)
    /\ ~EndsWithRefresh(req[i].url)
    /\ assigns = 1
\* C37: after stop the status is done, whatever it was: inflight, done,
\* error, or no state at all.
C37_StopIsDone ==
  [][lastEv'.kind = "stop" => current'.status = "done"]_vars

\* stop was called before any turn
C37_Witness ==
  /\ lastEv.kind = "stop"
  /\ turn = 0
  /\ current.status = "done"
\* C38: ready is set only in the step in which the current session check
\* gets an ok answer of its /me request; and no step of a check that was
\* cleaned up sets ready or navigates.
C38_ReadyAfterMe ==
  [][/\ ready' /\ ~ready
        => /\ gate = "me" /\ gate' = "ready"
           /\ \E i \in Reqs :
                /\ i # stale.req
                /\ req[i].pc = "done" /\ IsOk(req[i].out)
                /\ req[i].url = <<"me">>
                /\ req'[i].pc = "idle"
     /\ stale.pc \in {"refresh", "me"} /\ stale' # stale
        => ready' = ready /\ gate' = gate]_vars

\* the check that was cleaned up got an ok answer of /me while the
\* current check still waits: the content is not shown
C38_Witness ==
  /\ stale = StaleOver(TRUE)
  /\ gate = "me"
  /\ ~ready
  /\ \E i \in Reqs : req[i].pc = "fetch1"
====
